---- MODULE Spec2Model ----
(***************************************************************************)
(* Model of ai_model_server/app.py: a Flask process that unpickles a       *)
(* classifier from model.pkl once at startup (load_model) and then serves  *)
(* /health and /predict from worker threads (app.run(threaded=True)).      *)
(*                                                                         *)
(* JSON / Python values are modelled by what the interpreter does with     *)
(* them: truthiness, the `in` operator, subscripting, isinstance, len and  *)
(* == against the integers 0 and 1.                                        *)
(***************************************************************************)
EXTENDS Integers, Sequences, FiniteSets, TLC

VARIABLES
    artifact,   \* the file model.pkl on disk
    model,      \* the global `model` of app.py (app.py:31)
    mainpc,     \* position of the __main__ block: "start", "loaded", "serving"
    loadResult, \* what the call load_model() at app.py:198 did
    loads,      \* number of times load_model has run in this process
    flask,      \* which behaviour the installed Flask has for a non-JSON body
    th          \* the request each worker thread is handling

vars == <<artifact, model, mainpc, loadResult, loads, flask, th>>

\* Longest `features` list a client sends.
MaxLen == 6

\* The number of features the service expects (app.py:137).
NumFeatures == 5

Workers == {"t1", "t2"}

(***************************************************************************)
(* JSON scalars.  A number is num/den; Python compares ints, floats and    *)
(* bools numerically, and a str or None is never equal to an int.          *)
(***************************************************************************)
J(t, n, d) == [t |-> t, num |-> n, den |-> d]

J0 == J("int", 0, 1)
J1 == J("int", 1, 1)
J2 == J("int", 2, 1)
JNeg1 == J("int", -1, 1)
JHalf == J("float", 1, 2)
JF0 == J("float", 0, 1)
JF1 == J("float", 1, 1)
JTrue == J("bool", 1, 1)
JFalse == J("bool", 0, 1)
JStr1 == J("str", 1, 1)
JNull == J("null", 0, 1)

Bits == {J0, J1}
BadElems == {J2, JNeg1, JHalf, JStr1, JNull}

\* Python's  f == k  for an int k.
PyEq(f, k) == f.t \in {"int", "float", "bool"} /\ f.num = k * f.den

(***************************************************************************)
(* Request bodies of POST /predict.  `body` is the shape of what the       *)
(* client sent, `fkind` the JSON type of the value under "features" (when  *)
(* the body is an object that has the key) and `features` the list itself. *)
(***************************************************************************)
Payload(b, k, f) == [body |-> b, fkind |-> k, features |-> f]

NoPayload == Payload("none", "none", <<>>)

Scenario == <<J0, J1, J0, J1, J1>>

Ones(n) == [i \in 1..n |-> J1]

ValidVectors == [1..NumFeatures -> Bits]

\* One element of the scenario vector replaced.
Replaced(i, e) == [Scenario EXCEPT ![i] = e]

AcceptedVariants ==
    {Replaced(1, JF0), Replaced(2, JF1), Replaced(5, JTrue), Replaced(1, JFalse)}

OutOfDomainLists ==
    {Replaced(1, e) : e \in BadElems} \cup {Replaced(NumFeatures, J2)}

WrongLengthLists ==
    {Ones(n) : n \in (0..MaxLen) \ {NumFeatures}} \cup {<<J0, J1, J0>>}

FeatureLists ==
    ValidVectors \cup AcceptedVariants \cup OutOfDomainLists \cup WrongLengthLists

\* Bodies that are not a JSON object holding "features".
OtherBodies ==
    {"absent", "malformed", "null", "int0", "int5", "true", "str_abc",
     "str_features", "list_empty", "list_nums", "list_features",
     "obj_empty", "obj_other"}

\* {"features": null}, {"features": 5}, {"features": "01011"}
NonListKinds == {"null", "int", "str5"}

Payloads ==
    {Payload(b, "none", <<>>) : b \in OtherBodies}
    \cup {Payload("obj_features", k, <<>>) : k \in NonListKinds}
    \cup {Payload("obj_features", "list", f) : f \in FeatureLists}

\* What request.get_json() does for a body that is not JSON at all depends on
\* the installed Flask: it returns None, or raises 415 Unsupported Media Type.
FlaskVariants == {"returns_none", "raises_415"}

(***************************************************************************)
(* Responses.  An error body has no prediction; -1 stands for its absence. *)
(***************************************************************************)
Response(st, err, msg, pred, suit, feats) ==
    [status |-> st, error |-> err, message |-> msg, prediction |-> pred,
     suitable_for_training |-> suit, input_features |-> feats]

ErrorResponse(st, err, msg) == Response(st, err, msg, -1, FALSE, <<>>)

NoResponse == ErrorResponse(0, "", "")

ModelNotLoaded ==
    ErrorResponse(500, "Model not loaded", "Please ensure model.pkl file is available")

MissingField ==
    ErrorResponse(400, "Invalid request", "Request must contain features array")

InvalidFeatures ==
    ErrorResponse(400, "Invalid features", "Features must be an array of exactly 5 values")

InvalidFeatureValues ==
    ErrorResponse(400, "Invalid feature values", "All features must be binary (0 or 1)")

PredictionFailed(desc) == ErrorResponse(500, "Prediction failed", desc)

InternalError ==
    ErrorResponse(500, "Internal server error", "Something went wrong on the server")

\* The success body of predict (app.py:154-166).
SuccessResponse(label, feats) ==
    Response(200, "",
             IF label = 1 THEN "Suitable for exercise" ELSE "Not suitable for exercise",
             label, label = 1, feats)

\* The health body with the flag hard-coded instead of read from the global.
HealthResponse_always_loaded(m) ==
    [status |-> 200, health |-> "healthy", message |-> "AI Model Server is running",
     model_loaded |-> TRUE]

\* The body of health_check (app.py:97-101).
HealthResponse(m) ==
    [status |-> 200, health |-> "healthy", message |-> "AI Model Server is running",
     model_loaded |-> (m # "None")]


(***************************************************************************)
(* The model file and the objects it can unpickle to.  pickle.load returns *)
(* whatever object was pickled: None, an object that is no classifier, a   *)
(* classifier fitted on another number of features, a classifier with more *)
(* than two classes, or the decision tree create_model.py writes.          *)
(***************************************************************************)
None == "None"

Objects == {None, "NotAModel", "WrongShape", "Multiclass", "DTree"}

File(st, o) == [state |-> st, obj |-> o]

Artifacts ==
    {File("missing", None), File("corrupt", None)} \cup {File("ok", o) : o \in Objects}

\* The numeric value numpy sees for an element that passed validation.
Num(f) == f.num \div f.den

\* The tree fitted on the table of create_training_data: not rainy, hot or
\* mild, and sunny or normal humidity.
DTreeLabel(v) ==
    IF Num(v[1]) = 0 /\ (Num(v[3]) = 1 \/ Num(v[4]) = 1) /\ (Num(v[2]) = 1 \/ Num(v[5]) = 1)
    THEN 1 ELSE 0

\* A classifier with classes 0, 1, 2.
MulticlassLabel(v) == Num(v[2]) + Num(v[4])

(***************************************************************************)
(* load_model (app.py:33-59).  Returns the new value of the global, the    *)
(* value returned to the caller, the failure it printed (if any) and       *)
(* whether an exception left the function.                                 *)
(***************************************************************************)
LoadOutcome(src, m, ret, failure, raised) ==
    [src |-> src, model |-> m, ret |-> ret, failure |-> failure, raised |-> raised]

NotLoadedYet == LoadOutcome("none", None, FALSE, "not called", FALSE)

\* load_model without its try/except: the unpickling error leaves the function.
load_model_no_except(art, m) ==
    IF art.state = "missing"
    THEN LoadOutcome(art.state, m, FALSE, "Model file not found", FALSE)
    ELSE IF art.state = "corrupt"
         THEN LoadOutcome(art.state, m, FALSE, "Error loading model", TRUE)
         ELSE LoadOutcome(art.state, art.obj, TRUE, "", FALSE)

load_model(art, m) ==
    IF art.state = "missing"
    THEN LoadOutcome(art.state, m, FALSE, "Model file not found", FALSE)
    ELSE IF art.state = "corrupt"
         THEN LoadOutcome(art.state, m, FALSE, "Error loading model", FALSE)
         ELSE LoadOutcome(art.state, art.obj, TRUE, "", FALSE)

(***************************************************************************)
(* make_prediction (app.py:61-87).                                         *)
(***************************************************************************)
Prediction(raised, exc, label, invoked) ==
    [raised |-> raised, exc |-> exc, label |-> label, invoked |-> invoked]

make_prediction(m, features) ==
    CASE m = None -> Prediction(TRUE, "Model not loaded", -1, FALSE)
      [] m = "NotAModel" ->
            Prediction(TRUE, "object has no attribute predict", -1, FALSE)
      [] m = "WrongShape" ->
            Prediction(TRUE, "X has 5 features, but the classifier is expecting 3", -1, TRUE)
      [] m = "Multiclass" -> Prediction(FALSE, "", MulticlassLabel(features), TRUE)
      [] m = "DTree" -> Prediction(FALSE, "", DTreeLabel(features), TRUE)

(***************************************************************************)
(* request.get_json() and the Python operators predict applies to its      *)
(* result (app.py:125-144).                                                *)
(***************************************************************************)
Parsed(raised, exc) == [raised |-> raised, exc |-> exc]

get_json(p, fl) ==
    CASE p.body = "malformed" -> Parsed(TRUE, "400 Bad Request")
      [] p.body = "absent" /\ fl = "raises_415" ->
            Parsed(TRUE, "415 Unsupported Media Type")
      [] OTHER -> Parsed(FALSE, "")

\* `not data`: None, 0, [] and {} are falsy.
Falsy(p) == p.body \in {"absent", "null", "int0", "list_empty", "obj_empty"}

\* `'features' in data`: a TypeError for an int or a bool, a substring test
\* for a str, a membership test for a list, a key test for a dict.
HasFeatures(p) ==
    CASE p.body \in {"int5", "true"} -> "TypeError"
      [] p.body \in {"str_features", "list_features", "obj_features"} -> "yes"
      [] OTHER -> "no"

\* `data['features']`: only a dict can be subscripted with a str.
Subscript(p) ==
    IF p.body = "obj_features"
    THEN Parsed(FALSE, "")
    ELSE Parsed(TRUE, "indices must be integers")

\* The arity test with `<` in place of `!=`.
WrongArity_too_short_only(p) == p.fkind # "list" \/ Len(p.features) < NumFeatures

\* `not isinstance(features, list) or len(features) != 5`
WrongArity(p) == p.fkind # "list" \/ Len(p.features) # NumFeatures

\* The domain test done on the type as well as on the value.
IsBinary_int_only(f) == f.t = "int" /\ f.num \in {0, 1}

\* `f in [0, 1]`
IsBinary(f) == PyEq(f, 0) \/ PyEq(f, 1)

\* `all(f in [0, 1] for f in features)`
AllBinary(features) == \A i \in 1..Len(features) : IsBinary(features[i])

(***************************************************************************)
(* The predict view (app.py:103-175), cut where it reads the global        *)
(* `model`: once at line 118, and again inside make_prediction.            *)
(***************************************************************************)
Step(next, resp, exc, escaped, invoked) ==
    [next |-> next, resp |-> resp, exc |-> exc, escaped |-> escaped, invoked |-> invoked]

Return(resp) == Step("done", resp, "", FALSE, FALSE)

\* No except clause: the exception leaves the view and Flask's 500 handler answers.
except_handler_absent(desc, invoked) == Step("done", InternalError, desc, TRUE, invoked)

\* `except Exception as e` (app.py:170-175)
except_handler(desc, invoked) == Step("done", PredictionFailed(desc), desc, FALSE, invoked)

\* The view with the model check moved after the validation of the payload.
predict_validate_model_check_last(m, p, fl) ==
    IF get_json(p, fl).raised THEN except_handler(get_json(p, fl).exc, FALSE)
    ELSE IF Falsy(p) THEN Return(MissingField)
    ELSE IF HasFeatures(p) = "TypeError"
         THEN except_handler("argument is not iterable", FALSE)
    ELSE IF HasFeatures(p) = "no" THEN Return(MissingField)
    ELSE IF Subscript(p).raised THEN except_handler(Subscript(p).exc, FALSE)
    ELSE IF WrongArity(p) THEN Return(InvalidFeatures)
    ELSE IF ~AllBinary(p.features) THEN Return(InvalidFeatureValues)
    ELSE IF m = None THEN Return(ModelNotLoaded)
    ELSE Step("call", NoResponse, "", FALSE, FALSE)

\* app.py:116-148
predict_validate(m, p, fl) ==
    IF m = None THEN Return(ModelNotLoaded)
    ELSE IF get_json(p, fl).raised THEN except_handler(get_json(p, fl).exc, FALSE)
    ELSE IF Falsy(p) THEN Return(MissingField)
    ELSE IF HasFeatures(p) = "TypeError"
         THEN except_handler("argument is not iterable", FALSE)
    ELSE IF HasFeatures(p) = "no" THEN Return(MissingField)
    ELSE IF Subscript(p).raised THEN except_handler(Subscript(p).exc, FALSE)
    ELSE IF WrongArity(p) THEN Return(InvalidFeatures)
    ELSE IF ~AllBinary(p.features) THEN Return(InvalidFeatureValues)
    ELSE Step("call", NoResponse, "", FALSE, FALSE)

\* app.py:150-168
predict_call(m, features) ==
    LET r == make_prediction(m, features)
    IN  IF r.raised
        THEN except_handler(r.exc, r.invoked)
        ELSE Step("done", SuccessResponse(r.label, features), "", FALSE, r.invoked)

(***************************************************************************)
(* State machine.                                                          *)
(***************************************************************************)
Request(pc, kind, p, st) ==
    [pc |-> pc, kind |-> kind, payload |-> p, resp |-> st.resp, exc |-> st.exc,
     escaped |-> st.escaped, invoked |-> st.invoked]

Idle == Request("idle", "none", NoPayload, Return(NoResponse))

\* load_model called again while serving (a reload).
load_model_called_again == mainpc \in {"start", "serving"} /\ loads < 3

\* Requests dispatched before the __main__ block has reached app.run.
accepting_early == mainpc \in {"start", "loaded", "serving"}

\* load_model is called from the __main__ block only, before app.run (app.py:198).
load_model_called == mainpc = "start"

\* Requests are dispatched once app.run is serving (app.py:205-210).
accepting == mainpc = "serving"

Init ==
    /\ artifact \in Artifacts
    /\ model = None
    /\ mainpc = "start"
    /\ loadResult = NotLoadedYet
    /\ loads = 0
    /\ flask \in FlaskVariants
    /\ th = [w \in Workers |-> Idle]

\* create_model.py writes the fitted tree to model.pkl.
create_and_save_model ==
    /\ artifact # File("ok", "DTree")
    /\ artifact' = File("ok", "DTree")
    /\ UNCHANGED <<model, mainpc, loadResult, loads, flask, th>>

\* __main__: `if load_model():` (app.py:198-201)
LoadModel ==
    /\ load_model_called
    /\ LET r == load_model(artifact, model)
       IN  /\ model' = r.model
           /\ loadResult' = r
           /\ mainpc' = IF r.raised THEN "crashed" ELSE "loaded"
    /\ loads' = loads + 1
    /\ UNCHANGED <<artifact, flask, th>>

\* __main__: app.run(...) (app.py:205-210)
AppRun ==
    /\ mainpc = "loaded"
    /\ mainpc' = "serving"
    /\ UNCHANGED <<artifact, model, loadResult, loads, flask, th>>

\* GET /health (app.py:89-101)
health_check(w) ==
    /\ accepting
    /\ th[w].pc = "idle"
    /\ th' = [th EXCEPT ![w] =
                [pc |-> "done", kind |-> "health", payload |-> NoPayload,
                 resp |-> HealthResponse(model), exc |-> "", escaped |-> FALSE,
                 invoked |-> FALSE]]
    /\ UNCHANGED <<artifact, model, mainpc, loadResult, loads, flask>>

\* POST /predict, up to the call of make_prediction
predict(w) ==
    /\ accepting
    /\ th[w].pc = "idle"
    /\ \E p \in Payloads :
          LET st == predict_validate(model, p, flask)
          IN  th' = [th EXCEPT ![w] = Request(st.next, "predict", p, st)]
    /\ UNCHANGED <<artifact, model, mainpc, loadResult, loads, flask>>

\* The second half of the view with `features` kept in a variable the worker
\* threads share: a request in flight on the other worker overwrites it.
predict_finish_shared_features(w) ==
    /\ th[w].pc = "call"
    /\ LET other == CHOOSE o \in Workers : o # w
           feats == IF th[other].pc = "call"
                    THEN th[other].payload.features
                    ELSE th[w].payload.features
           st == predict_call(model, feats)
       IN  th' = [th EXCEPT ![w] = Request("done", "predict", th[w].payload, st)]
    /\ UNCHANGED <<artifact, model, mainpc, loadResult, loads, flask>>

\* POST /predict, from the call of make_prediction to the response
predict_finish(w) ==
    /\ th[w].pc = "call"
    /\ LET st == predict_call(model, th[w].payload.features)
       IN  th' = [th EXCEPT ![w] = Request("done", "predict", th[w].payload, st)]
    /\ UNCHANGED <<artifact, model, mainpc, loadResult, loads, flask>>

\* The response is sent and the thread that served the request ends.
respond(w) ==
    /\ th[w].pc = "done"
    /\ th' = [th EXCEPT ![w] = Idle]
    /\ UNCHANGED <<artifact, model, mainpc, loadResult, loads, flask>>

Next ==
    \/ create_and_save_model
    \/ LoadModel
    \/ AppRun
    \/ \E w \in Workers : health_check(w)
    \/ \E w \in Workers : predict(w)
    \/ \E w \in Workers : predict_finish(w)
    \/ \E w \in Workers : respond(w)

Spec == Init /\ [][Next]_vars

(***************************************************************************)
(* Properties.                                                             *)
(***************************************************************************)
\* A /predict request that has been taken up by worker w.
Predicting(w) == th[w].kind = "predict" /\ th[w].pc # "idle"

\* A /predict request worker w has answered.
Answered(w) == th[w].kind = "predict" /\ th[w].pc = "done"

\* The request of w carries {"features": <a list>}.
HasList(w) == th[w].payload.body = "obj_features" /\ th[w].payload.fkind = "list"

AllInts01(f) == Len(f) = 5 /\ \A i \in 1..5 : f[i] \in {J0, J1}

\* C1: while the global model is None, every /predict request, whatever its
\* payload, is answered with status 500 and error 'Model not loaded', and
\* never gets as far as make_prediction.
C1_NotLoadedAlways500 ==
    \A w \in Workers :
        (model = "None" /\ Predicting(w)) =>
            /\ th[w].pc = "done"
            /\ th[w].resp.status = 500
            /\ th[w].resp.error = "Model not loaded"
            /\ ~th[w].invoked

\* C1 witness: with no model, a valid vector and a malformed body have both
\* been answered.
C1_Witness ==
    /\ model = "None"
    /\ Answered("t1") /\ HasList("t1") /\ AllInts01(th["t1"].payload.features)
    /\ Answered("t2") /\ th["t2"].payload.body = "malformed"

\* C2: with a model loaded, every 5-element vector of 0/1 integers is answered
\* with a success whose prediction is 0 or 1, whose suitable_for_training is
\* (prediction = 1) and whose message is selected by the prediction.
C2_ValidVectorSucceeds ==
    \A w \in Workers :
        (model # "None" /\ Answered(w) /\ HasList(w)
            /\ AllInts01(th[w].payload.features)) =>
            /\ th[w].resp.status = 200
            /\ th[w].resp.prediction \in {0, 1}
            /\ th[w].resp.suitable_for_training = (th[w].resp.prediction = 1)
            /\ th[w].resp.message =
                  IF th[w].resp.prediction = 1
                  THEN "Suitable for exercise" ELSE "Not suitable for exercise"

\* C3: with a model loaded, a `features` value that is not a list of exactly 5
\* elements is answered 400 'Invalid features' and the model's predict is not
\* invoked for that request.
C3_WrongArityRejected ==
    \A w \in Workers :
        (model # "None" /\ Predicting(w) /\ th[w].payload.body = "obj_features"
            /\ (th[w].payload.fkind # "list" \/ Len(th[w].payload.features) # 5)) =>
            /\ th[w].pc = "done"
            /\ th[w].resp.status = 400
            /\ th[w].resp.error = "Invalid features"
            /\ ~th[w].invoked

\* C3 witness: a list of 6 and a 5-character string have both been rejected.
C3_Witness ==
    /\ model # "None"
    /\ Answered("t1") /\ HasList("t1") /\ Len(th["t1"].payload.features) = 6
    /\ Answered("t2") /\ th["t2"].payload.fkind = "str5"
    /\ th["t1"].resp.status = 400 /\ th["t2"].resp.status = 400

\* The elements the claim calls outside {0,1}: 2, -1, 0.5, "1" (and null).
OutsideDomain(f) == f \in {J2, JNeg1, JHalf, JStr1, JNull}

\* The elements numerically equal to 0 or 1: the ints, the floats 0.0 and 1.0,
\* and the bools, which Python compares as 0 and 1.
NumericallyBinary(f) == f \in {J0, J1, JF0, JF1, JTrue, JFalse}

\* C4: with a model loaded, a 5-element list with an element outside {0,1} is
\* answered 400 'Invalid feature values' with no model interaction, and a list
\* whose elements are all numerically 0 or 1 is not rejected as out of domain.
C4_OutOfDomainRejected ==
    \A w \in Workers :
        (model # "None" /\ Predicting(w) /\ HasList(w)
            /\ Len(th[w].payload.features) = 5) =>
            /\ (\E i \in 1..5 : OutsideDomain(th[w].payload.features[i])) =>
                  /\ th[w].pc = "done"
                  /\ th[w].resp.status = 400
                  /\ th[w].resp.error = "Invalid feature values"
                  /\ ~th[w].invoked
            /\ (\A i \in 1..5 : NumericallyBinary(th[w].payload.features[i])) =>
                  (th[w].pc = "done" => th[w].resp.status # 400)

\* C4 witness: a list holding the string "1" has been rejected and a list
\* holding the float 0.0 has been answered.
C4_Witness ==
    /\ model # "None"
    /\ Answered("t1") /\ HasList("t1") /\ th["t1"].payload.features = Replaced(1, JStr1)
    /\ th["t1"].resp.status = 400
    /\ Answered("t2") /\ HasList("t2") /\ th["t2"].payload.features = Replaced(1, JF0)

\* C5: with a model loaded, every payload without a `features` key (empty
\* object, other keys only, null, absent or unparseable body, non-object JSON
\* value) is answered 400 'Invalid request'.
C5_MissingFieldRejected ==
    \A w \in Workers :
        (model # "None" /\ Answered(w) /\ th[w].payload.body # "obj_features") =>
            /\ th[w].resp.status = 400
            /\ th[w].resp.error = "Invalid request"

\* C6: every exception raised while predict runs is answered with status 500,
\* error 'Prediction failed' and the exception's description as message; no
\* exception leaves the view, and every answer is a 200 success, a 400 or a 500.
C6_FailuresCaught ==
    \A w \in Workers :
        Answered(w) =>
            /\ ~th[w].escaped
            /\ th[w].resp.status \in {200, 400, 500}
            /\ (th[w].resp.status = 200) = (th[w].resp.error = "")
            /\ th[w].exc # "" =>
                  /\ th[w].resp.status = 500
                  /\ th[w].resp.error = "Prediction failed"
                  /\ th[w].resp.message = th[w].exc

\* C6 witness: the model's predict raised for one request and get_json raised
\* for another, and both have been answered.
C6_Witness ==
    /\ Answered("t1") /\ th["t1"].invoked /\ th["t1"].exc # ""
    /\ Answered("t2") /\ th["t2"].payload.body = "malformed" /\ th["t2"].exc # ""

C8_Lifecycle ==
    [][/\ loads' <= 1
       /\ model # "None" => model' = model
       /\ (loads >= 1 /\ model = "None") =>
             /\ model' = "None"
             /\ \A w \in Workers :
                   (th'[w].kind = "predict" /\ th'[w].pc = "done") =>
                       th'[w].resp.error = "Model not loaded"]_vars

\* C8 witness: the file on disk has been replaced since the load, the stored
\* model is still the one that was loaded, and a request has been answered
\* with it.
C8_Witness ==
    /\ loads = 1
    /\ model = "Multiclass"
    /\ artifact.obj = "DTree"
    /\ Answered("t1") /\ th["t1"].resp.status = 200 /\ th["t1"].resp.prediction = 2

\* C9: no /health or /predict request is handled before load_model has run to
\* completion exactly once; after a failed load the process still serves,
\* answering /health with 200 and /predict with 'Model not loaded'.
C9_InitBeforeTraffic ==
    /\ mainpc # "crashed"
    /\ \A w \in Workers :
          th[w].pc # "idle" =>
              /\ loads = 1
              /\ loadResult.failure # "not called"
              /\ (th[w].pc = "done" /\ ~loadResult.ret) =>
                    /\ th[w].kind = "health" => th[w].resp.status = 200
                    /\ th[w].kind = "predict" =>
                          (th[w].resp.status = 500 /\ th[w].resp.error = "Model not loaded")

\* C9 witness: after a failed load both endpoints have answered.
C9_Witness ==
    /\ loads = 1 /\ ~loadResult.ret /\ loadResult.src = "missing"
    /\ th["t1"].kind = "health" /\ th["t1"].pc = "done"
    /\ Answered("t2") /\ th["t2"].resp.status = 500

\* C10: whenever a model is stored (model is not None), make_prediction on any
\* 5-element vector of 0/1 returns a label instead of raising.
C10_PresentMeansUsable ==
    model # "None" =>
        \A v \in [1..5 -> {J0, J1}] :
            /\ ~make_prediction(model, v).raised
            /\ make_prediction(model, v).label \in {0, 1}

\* A /health request worker w has answered.
HealthAnswered(w) == th[w].kind = "health" /\ th[w].pc = "done"

\* C11: every /health request, whatever the other worker is doing and whether
\* or not a model is stored, is answered without an exception with status 200,
\* status 'healthy' and model_loaded equal to (model is not None).
C11_HealthReflectsReadiness ==
    \A w \in Workers :
        HealthAnswered(w) =>
            /\ th[w].exc = "" /\ ~th[w].escaped
            /\ th[w].resp.status = 200
            /\ th[w].resp.health = "healthy"
            /\ th[w].resp.model_loaded = (model # "None")

\* C11 witness: /health has answered model_loaded = true while the other
\* worker is between the model check and make_prediction of a /predict request.
C11_Witness ==
    /\ HealthAnswered("t1") /\ th["t1"].resp.model_loaded
    /\ th["t2"].kind = "predict" /\ th["t2"].pc = "call"

\* The answer a /predict request gets when it is the only request running
\* against model m.
SoloResponse(m, p, fl) ==
    IF predict_validate(m, p, fl).next = "done"
    THEN predict_validate(m, p, fl).resp
    ELSE predict_call(m, p.features).resp

\* C12: no step of a /predict or /health request writes the global model;
\* every answered /predict request, however it was interleaved with the other
\* worker, carries the answer it would get alone against the stored model;
\* and two answered requests with the same payload carry the same answer.
C12_PureAndIsolated ==
    /\ [](\A w \in Workers :
            Answered(w) => th[w].resp = SoloResponse(model, th[w].payload, flask))
    /\ [](\A w1, w2 \in Workers :
            (Answered(w1) /\ Answered(w2) /\ th[w1].payload = th[w2].payload) =>
                /\ th[w1].resp.prediction = th[w2].resp.prediction
                /\ th[w1].resp = th[w2].resp)
    /\ [][th' # th => model' = model]_vars

\* C12 witness: one worker has answered a valid vector with a label while the
\* other worker, handling a different valid vector, is between the model check
\* and make_prediction.
C12_Witness ==
    /\ Answered("t1") /\ th["t1"].resp.status = 200 /\ th["t1"].resp.prediction = 1
    /\ th["t2"].kind = "predict" /\ th["t2"].pc = "call"
    /\ th["t2"].payload # th["t1"].payload

\* C13: once load_model has returned, its return value is True exactly when
\* the global model is not None; after a True return /health reports
\* model_loaded = true.
C13_ReturnMatchesReadiness ==
    mainpc # "start" =>
        /\ loadResult.ret = (model # "None")
        /\ \A w \in Workers :
              (HealthAnswered(w) /\ loadResult.ret) => th[w].resp.model_loaded

====
